---- MODULE Spec2Model ----
(***************************************************************************)
(* A model of server.py: the QR-code upload server.                        *)
(*                                                                         *)
(* Text (file names, URL paths, header values, the HTML page) is a        *)
(* sequence of one-character strings, so that basename, join, quote,      *)
(* urlencode and the path lookup of the static file handler are computed  *)
(* character by character as the library routines compute them.  The      *)
(* fixed parts of the HTML template are single opaque elements.  A file    *)
(* system path is a sequence of components, each a text.                   *)
(***************************************************************************)
EXTENDS Integers, Sequences, FiniteSets, TLC

VARIABLES cwd, dirs, files, connected, accepted, loop, active, responded,
          served, req, resp, lastUpload, stored

vars == <<cwd, dirs, files, connected, accepted, loop, active, responded,
          served, req, resp, lastUpload, stored>>

\* lastUpload and stored are history variables: the bytes of the latest upload
\* answered 200 for each final path component, and the number of uploads
\* answered 200.

\* Number of connections the clients open in one run of the model.
MaxRequests == 3

\* server.py:30
PORT == 3000

----------------------------------------------------------------------------
(* Text helpers *)

RECURSIVE Flatten(_)
Flatten(ss) == IF ss = <<>> THEN <<>> ELSE Head(ss) \o Flatten(Tail(ss))

\* s.endswith('/')
EndsWithSlash(s) == Len(s) > 0 /\ s[Len(s)] = "/"

\* s.startswith('/')
StartsWithSlash(s) == Len(s) > 0 /\ s[1] = "/"

\* s.rfind(c) + 1: the position of the last c in s, 0 when there is none
RFind1(s, c) ==
    LET hits == {i \in 1..Len(s) : s[i] = c}
    IN  IF hits = {} THEN 0 ELSE CHOOSE i \in hits : \A j \in hits : j <= i

\* s.find(c) + 1: the position of the first c in s, 0 when there is none
Find1(s, c) ==
    LET hits == {i \in 1..Len(s) : s[i] = c}
    IN  IF hits = {} THEN 0 ELSE CHOOSE i \in hits : \A j \in hits : i <= j

\* s.split('/'): the pieces between the slashes, empty pieces included
RECURSIVE Split(_)
Split(s) ==
    LET i == Find1(s, "/")
    IN  IF i = 0 THEN <<s>>
        ELSE <<SubSeq(s, 1, i - 1)>> \o Split(SubSeq(s, i + 1, Len(s)))

\* sub in s, for texts
Contains(s, sub) ==
    \E i \in 0..(Len(s) - Len(sub)) : SubSeq(s, i + 1, i + Len(sub)) = sub

\* str(n) for n >= 0
Digit(d) == CASE d = 0 -> "0" [] d = 1 -> "1" [] d = 2 -> "2" [] d = 3 -> "3"
              [] d = 4 -> "4" [] d = 5 -> "5" [] d = 6 -> "6" [] d = 7 -> "7"
              [] d = 8 -> "8" [] d = 9 -> "9"

RECURSIVE Str(_)
Str(n) == IF n < 10 THEN <<Digit(n)>> ELSE Str(n \div 10) \o <<Digit(n % 10)>>

----------------------------------------------------------------------------
(* Library routines the handler calls *)

\* The file name used as submitted, directories and all
basename_keep(p) == p

\* os.path.basename (posixpath): everything after the last '/'
basename(p) == SubSeq(p, RFind1(p, "/") + 1, Len(p))

\* os.path.join (posixpath), two arguments
join(a, b) ==
    IF StartsWithSlash(b) THEN b
    ELSE IF a = <<>> \/ EndsWithSlash(a) THEN a \o b
    ELSE a \o <<"/">> \o b

\* The characters urllib.parse.quote never escapes, among those of the model
AlwaysSafe == {"a", "b", "c", "d", "e", "f", "g", "h", "i", "j", "k", "l", "m",
               "n", "o", "p", "q", "r", "s", "t", "u", "v", "w", "x", "y", "z",
               "0", "1", "2", "3", "4", "5", "6", "7", "8", "9",
               ".", "-", "_", "~"}

\* The %XX escape of one character (UTF-8, upper-case hex)
Escape(c) == CASE c = " " -> <<"%", "2", "0">>
               [] c = "/" -> <<"%", "2", "F">>
               [] c = ":" -> <<"%", "3", "A">>
               [] c = "%" -> <<"%", "2", "5">>
               [] c = "?" -> <<"%", "3", "F">>
               [] c = "#" -> <<"%", "2", "3">>
               [] c = "=" -> <<"%", "3", "D">>
               [] c = "+" -> <<"%", "2", "B">>

\* urllib.parse.quote(s, safe='/')
quote(s) ==
    Flatten([i \in 1..Len(s) |->
                IF s[i] \in AlwaysSafe \cup {"/"} THEN <<s[i]>> ELSE Escape(s[i])])

\* urllib.parse.quote_plus(s): safe is empty and a space becomes '+'
quote_plus(s) ==
    Flatten([i \in 1..Len(s) |->
                IF s[i] = " " THEN <<"+">>
                ELSE IF s[i] \in AlwaysSafe THEN <<s[i]>> ELSE Escape(s[i])])

\* urllib.parse.urlencode({'data': v})
urlencode_data(v) == <<"d", "a", "t", "a", "=">> \o quote_plus(v)

\* urllib.parse.unquote: every %XX escape of the model decoded
RECURSIVE unquote(_)
unquote(s) ==
    IF s = <<>> THEN <<>>
    ELSE IF Len(s) >= 3 /\ s[1] = "%"
              /\ \E c \in {" ", "/", ":", "%", "?", "#", "=", "+"} :
                     Escape(c) = SubSeq(s, 1, 3)
         THEN <<CHOOSE c \in {" ", "/", ":", "%", "?", "#", "=", "+"} :
                     Escape(c) = SubSeq(s, 1, 3)>> \o unquote(SubSeq(s, 4, Len(s)))
         ELSE <<Head(s)>> \o unquote(Tail(s))

\* os.path.dirname (posixpath)
RECURSIVE RStripSlashes(_)
RStripSlashes(s) ==
    IF EndsWithSlash(s) THEN RStripSlashes(SubSeq(s, 1, Len(s) - 1)) ELSE s

dirname(p) ==
    LET head == SubSeq(p, 1, RFind1(p, "/"))
    IN  IF head # <<>> /\ \E i \in 1..Len(head) : head[i] # "/"
        THEN RStripSlashes(head) ELSE head

\* posixpath.normpath; a leading "//" is kept by the library and is read here
\* as one slash, which names the same directory
RECURSIVE NormComps(_, _, _)
NormComps(comps, new, initial_slash) ==
    IF comps = <<>> THEN new
    ELSE LET comp == Head(comps)
         IN  IF comp = <<>> \/ comp = <<".">>
             THEN NormComps(Tail(comps), new, initial_slash)
             ELSE IF comp # <<".", ".">>
                     \/ (~initial_slash /\ new = <<>>)
                     \/ (new # <<>> /\ new[Len(new)] = <<".", ".">>)
             THEN NormComps(Tail(comps), Append(new, comp), initial_slash)
             ELSE IF new # <<>>
             THEN NormComps(Tail(comps), SubSeq(new, 1, Len(new) - 1), initial_slash)
             ELSE NormComps(Tail(comps), new, initial_slash)

\* '/'.join(comps)
RECURSIVE JoinSlash(_)
JoinSlash(comps) ==
    IF comps = <<>> THEN <<>>
    ELSE IF Len(comps) = 1 THEN comps[1]
    ELSE comps[1] \o <<"/">> \o JoinSlash(Tail(comps))

normpath(path) ==
    IF path = <<>> THEN <<".">>
    ELSE LET initial_slash == StartsWithSlash(path)
             joined == JoinSlash(NormComps(Split(path), <<>>, initial_slash))
             out == IF initial_slash THEN <<"/">> \o joined ELSE joined
         IN  IF out = <<>> THEN <<".">> ELSE out

----------------------------------------------------------------------------
(* The file system: dirs is the set of directories, files maps the path of  *)
(* each regular file to its content.                                       *)

Root == <<>>

Parent(p) == IF p = <<>> THEN <<>> ELSE SubSeq(p, 1, Len(p) - 1)

\* The kernel's lookup of an absolute path name: every component is looked up
\* in a directory that exists; "" and "." stay, ".." goes to the parent.
RECURSIVE Walk(_, _, _)
Walk(comps, cur, ds) ==
    IF comps = <<>> THEN [ok |-> TRUE, path |-> cur]
    ELSE IF cur \notin ds THEN [ok |-> FALSE, path |-> cur]
    ELSE LET c == Head(comps)
         IN  IF c = <<>> \/ c = <<".">> THEN Walk(Tail(comps), cur, ds)
             ELSE IF c = <<".", ".">> THEN Walk(Tail(comps), Parent(cur), ds)
             ELSE Walk(Tail(comps), Append(cur, c), ds)

\* Whether the path name itself says "a directory": it ends in "/", "." or ".."
NamesDirectory(s) ==
    LET comps == Split(s) IN comps[Len(comps)] \in {<<>>, <<".">>, <<".", ".">>}

\* os.path.isdir
isdir(s, ds) == LET w == Walk(Split(s), Root, ds) IN w.ok /\ w.path \in ds

\* os.path.isfile
isfile(s, ds, fs) ==
    LET w == Walk(Split(s), Root, ds)
    IN  w.ok /\ w.path \in DOMAIN fs /\ ~NamesDirectory(s)

\* open(s, 'ab'): the data is added after what the file already holds
open_ab(s, data, ds, fs) ==
    LET w == Walk(Split(s), Root, ds)
    IN  IF ~w.ok \/ w.path \in ds \/ NamesDirectory(s)
        THEN [ok |-> FALSE, files |-> fs]
        ELSE [ok |-> TRUE,
              files |-> [p \in DOMAIN fs \cup {w.path} |->
                            IF p # w.path THEN fs[p]
                            ELSE IF p \in DOMAIN fs THEN fs[p] \o data ELSE data]]

\* open(s, 'wb') followed by write(data) and close: the file is created or
\* truncated and then holds exactly data; opening a directory, or a name in a
\* directory that does not exist, raises OSError and changes nothing.
open_wb(s, data, ds, fs) ==
    LET w == Walk(Split(s), Root, ds)
    IN  IF ~w.ok \/ w.path \in ds \/ NamesDirectory(s)
        THEN [ok |-> FALSE, files |-> fs]
        ELSE [ok |-> TRUE,
              files |-> [p \in DOMAIN fs \cup {w.path} |->
                            IF p = w.path THEN data ELSE fs[p]]]

\* os.makedirs(s, exist_ok=True): every missing directory on the way is made;
\* FileExistsError when a regular file is in the way.
makedirs(s, ds, fs) ==
    LET comps == SelectSeq(Split(s), LAMBDA c : c # <<>>)
        prefixes == {SubSeq(comps, 1, n) : n \in 0..Len(comps)}
    IN  IF prefixes \cap DOMAIN fs # {}
        THEN [ok |-> FALSE, dirs |-> ds]
        ELSE [ok |-> TRUE, dirs |-> ds \cup prefixes]

----------------------------------------------------------------------------
(* Fixed texts *)

\* __file__ of the running script, absolute
ServerFile == <<"/", "a", "p", "p", "/", "s", "e", "r", "v", "e", "r", ".", "p", "y">>

\* A directory other than the script's, from which the server may be started
OtherDir == <<"/", "s", "r", "v">>

Uploads == <<"u", "p", "l", "o", "a", "d", "s">>
IndexHtml == <<"i", "n", "d", "e", "x", ".", "h", "t", "m", "l">>
IndexHtm == <<"i", "n", "d", "e", "x", ".", "h", "t", "m">>
UploadRoute == <<"/", "u", "p", "l", "o", "a", "d">>
Localhost == <<"l", "o", "c", "a", "l", "h", "o", "s", "t">>
HttpScheme == <<"h", "t", "t", "p", ":", "/", "/">>
QrApi == <<"https://api.qrserver.com/v1/create-qr-code/?">>
ImageField == "image"

\* os.path.dirname(os.path.abspath(__file__))
script_dir == dirname(normpath(ServerFile))

\* os.path.join(script_dir, 'uploads')
uploads_dir == join(script_dir, Uploads)

\* A text path name as a file system path
PathOf(s) == SelectSeq(Split(s), LAMBDA c : c # <<>>)

----------------------------------------------------------------------------
(* Responses.  status 0 stands for no response at all: the handler raised,  *)
(* socketserver logged the traceback and closed the connection.            *)

NoResponse == 0

Response(status, reason, ctype, body, parsed) ==
    [status |-> status, reason |-> reason, ctype |-> ctype, body |-> body,
     parsed |-> parsed]

\* BaseHTTPRequestHandler.send_error: the page names the code and the message
send_error(code, message, parsed) ==
    Response(code, message, "text/html;charset=utf-8",
             <<"Error response", message>>, parsed)

Raised(parsed) == Response(NoResponse, "", "", <<>>, parsed)

----------------------------------------------------------------------------
(* GET: SimpleHTTPRequestHandler, serving the process's working directory  *)

\* urlsplit(path).path: the text before the first '?' or '#'
StripQuery(path) ==
    LET cut == {i \in 1..Len(path) : path[i] \in {"?", "#"}}
    IN  IF cut = {} THEN path
        ELSE SubSeq(path, 1, (CHOOSE i \in cut : \A j \in cut : i <= j) - 1)

\* SimpleHTTPRequestHandler.translate_path
RECURSIVE JoinWords(_, _)
JoinWords(path, words) ==
    IF words = <<>> THEN path
    ELSE LET word == Head(words)
         IN  IF dirname(word) # <<>> \/ word \in {<<".">>, <<".", ".">>}
             THEN JoinWords(path, Tail(words))
             ELSE JoinWords(join(path, word), Tail(words))

translate_path(path, directory) ==
    LET p == StripQuery(path)
        words == SelectSeq(Split(normpath(unquote(p))), LAMBDA c : c # <<>>)
        out == JoinWords(directory, words)
    IN  IF EndsWithSlash(p) THEN out \o <<"/">> ELSE out

\* SimpleHTTPRequestHandler.send_head and do_GET
send_head(path, directory, ds, fs) ==
    LET fspath == translate_path(path, directory)
        index == IF isfile(join(fspath, IndexHtml), ds, fs)
                 THEN join(fspath, IndexHtml)
                 ELSE IF isfile(join(fspath, IndexHtm), ds, fs)
                 THEN join(fspath, IndexHtm)
                 ELSE <<>>
        target == IF isdir(fspath, ds) THEN index ELSE fspath
    IN  IF isdir(fspath, ds) /\ ~EndsWithSlash(StripQuery(path))
        THEN Response(301, "Moved Permanently", "", <<>>, FALSE)
        ELSE IF isdir(fspath, ds) /\ index = <<>>
        THEN Response(200, "OK", "text/html; charset=utf-8",
                      <<"Directory listing for ">> \o unquote(StripQuery(path)), FALSE)
        ELSE IF EndsWithSlash(target) \/ ~isfile(target, ds, fs)
        THEN send_error(404, "File not found", FALSE)
        ELSE Response(200, "OK", "application/octet-stream",
                      fs[Walk(Split(target), Root, ds).path], FALSE)

\* No rewrite of the root path
RewriteRoot_None(path) == path

\* server.py:39-40
RewriteRoot(path) ==
    IF path \in {<<>>, <<"/">>} THEN <<"/">> \o IndexHtml ELSE path

\* QRCodeRequestHandler.do_GET
do_GET(path, directory, ds, fs) == send_head(RewriteRoot(path), directory, ds, fs)

----------------------------------------------------------------------------
(* POST: QRCodeRequestHandler.do_POST *)

\* A header that may be absent
Absent == [has |-> FALSE, val |-> <<>>]
Header(v) == [has |-> TRUE, val |-> v]

\* path.startswith('/upload')
IsUploadRoute_Prefix(path) ==
    Len(path) >= Len(UploadRoute) /\ SubSeq(path, 1, Len(UploadRoute)) = UploadRoute

\* server.py:45
IsUploadRoute(path) == path = UploadRoute

\* No check of the Content-Type header
MissingContentType_Never(ctype) == FALSE

\* server.py:59-60: headers.get('Content-Type') is None or empty
MissingContentType(ctype) == ~ctype.has \/ ctype.val = <<>>

\* cgi.FieldStorage over a multipart body: the parts, in order
FieldStorage(body) == body

\* 'image' in form
InForm(form, name) == \E i \in 1..Len(form) : form[i].name = name

\* form['image']: the part itself when one part has the name, a list of the
\* parts when several have it
GetItem(form, name) == SelectSeq(form, LAMBDA part : part.name = name)

\* filename is not None, the empty name let through
HasFilename_NotNone(item) == Len(item) = 1 /\ item[1].has_filename

\* server.py:80: getattr(fileitem, 'filename', None) is neither None nor '';
\* a list of parts has no attribute filename
HasFilename(item) ==
    Len(item) = 1 /\ item[1].has_filename /\ item[1].filename # <<>>

\* The Host header ignored
HostOf_Fixed(host) == Localhost \o <<":">> \o Str(PORT)

\* server.py:93: headers.get('Host', f'localhost:{PORT}')
HostOf(host) == IF host.has THEN host.val ELSE Localhost \o <<":">> \o Str(PORT)

\* server.py:95-96
ImageUrl(host, filename) ==
    HttpScheme \o HostOf(host) \o <<"/">> \o Uploads \o <<"/">> \o quote(filename)

\* server.py:100-103
QrApiUrl(image_url) == QrApi \o urlencode_data(image_url)

\* server.py:106-125: the page, its fixed parts as single elements
Html(image_url, qr_api_url) ==
    <<"<!DOCTYPE html>...<p><strong>Image URL:</strong> <a href=\"">>
    \o image_url \o <<"\" target=\"_blank\">">> \o image_url
    \o <<"</a></p>...<img src=\"">> \o qr_api_url
    \o <<"\" alt=\"QR code for uploaded image\">...</html>">>

Outcome(r, ds, fs) == [resp |-> r, dirs |-> ds, files |-> fs]

do_POST(r, ds, fs) ==
    IF ~IsUploadRoute(r.path)
    THEN Outcome(send_error(404, "File not found", FALSE), ds, fs)
    ELSE
    LET md == makedirs(uploads_dir, ds, fs) IN
    IF ~md.ok THEN Outcome(Raised(FALSE), ds, fs)
    ELSE IF MissingContentType(r.ctype)
    THEN Outcome(send_error(400, "Missing Content-Type header", FALSE), md.dirs, fs)
    ELSE
    LET form == FieldStorage(r.body) IN
    IF ~InForm(form, ImageField)
    THEN Outcome(send_error(400, "No image file provided", TRUE), md.dirs, fs)
    ELSE
    LET fileitem == GetItem(form, ImageField) IN
    IF ~HasFilename(fileitem)
    THEN Outcome(send_error(400, "No file selected", TRUE), md.dirs, fs)
    ELSE
    LET filename == basename(fileitem[1].filename)
        save_path == join(uploads_dir, filename)
        w == open_wb(save_path, fileitem[1].data, md.dirs, fs)
        image_url == ImageUrl(r.host, filename)
    IN  IF ~w.ok THEN Outcome(Raised(TRUE), md.dirs, fs)
        ELSE Outcome(Response(200, "OK", "text/html; charset=utf-8",
                              Html(image_url, QrApiUrl(image_url)), TRUE),
                     md.dirs, w.files)

----------------------------------------------------------------------------
(* Requests the clients send *)

Filenames ==
    { <<"a">>, <<"a", " ", "b">>, <<".">>, <<".", ".">>, <<"a", "/">>,
      <<"/", "a">>, <<"d", "/", "a">>, <<".", ".", "/", "a">>,
      <<".", ".", "/", ".", ".", "/", "e", "t", "c", "/", "p", "a", "s", "s", "w", "d">> }

Data == { <<"x">>, <<"y", "y">> }

Part(name, has_filename, filename, data) ==
    [name |-> name, has_filename |-> has_filename, filename |-> filename,
     data |-> data]

ImageParts ==
    { Part(ImageField, TRUE, f, d) : f \in Filenames, d \in Data }
    \cup { Part(ImageField, TRUE, <<>>, <<>>), Part(ImageField, FALSE, <<>>, <<"x">>) }

OtherPart == Part("note", FALSE, <<>>, <<"x">>)

Bodies ==
    { <<>>, <<OtherPart>> }
    \cup { <<p>> : p \in ImageParts }
    \cup { <<OtherPart, p>> : p \in { Part(ImageField, TRUE, <<"a">>, d) : d \in Data } }
    \cup { <<p, p>> : p \in { Part(ImageField, TRUE, <<"a">>, d) : d \in Data } }

Multipart == <<"multipart/form-data; boundary=x">>

ContentTypes == { Absent, Header(<<>>), Header(Multipart) }

Hosts == { Absent, Header(<<"h">>) }

PostPaths == { UploadRoute, UploadRoute \o <<"/">> }

UploadsUrl == <<"/">> \o Uploads \o <<"/">>

GetPaths ==
    { <<>>, <<"/">>, <<"/">> \o IndexHtml, <<"/">> \o Uploads, UploadsUrl,
      <<"/", "x">>, <<"/", "?", "x">> }
    \cup { UploadsUrl \o quote(basename(f)) : f \in Filenames }
    \cup { UploadsUrl \o f : f \in { <<".", ".", "/", "a">>, <<"d", "/", "a">> } }

Request(method, path, ctype, host, body) ==
    [method |-> method, path |-> path, ctype |-> ctype, host |-> host,
     body |-> body]

NoRequest == Request("", <<>>, Absent, Absent, <<>>)

\* The final path component of a submitted file name
FinalComponent(f) == LET comps == Split(f) IN comps[Len(comps)]

\* The image parts of a request, and the one image part when there is one
ImagesOf(r) == {i \in 1..Len(r.body) : r.body[i].name = "image"}
ImageOf(r) == r.body[CHOOSE i \in ImagesOf(r) : TRUE]

----------------------------------------------------------------------------
(* The server *)

InitialFiles(dir, withIndex) ==
    LET server == PathOf(ServerFile)
        index == PathOf(join(dir, IndexHtml))
    IN  [p \in {server} \cup (IF withIndex THEN {index} ELSE {}) |->
            IF p = server THEN <<"server.py source">> ELSE <<"index page">>]

Init ==
    /\ cwd \in {script_dir, OtherDir}
    /\ \E withUploads \in BOOLEAN :
          dirs = {Root, PathOf(script_dir), PathOf(cwd)}
                 \cup (IF withUploads THEN {PathOf(uploads_dir)} ELSE {})
    /\ \E withIndex \in BOOLEAN : files = InitialFiles(cwd, withIndex)
    /\ connected = 0
    /\ accepted = 0
    /\ loop = "select"
    /\ active = {}
    /\ responded = {}
    /\ served = 0
    /\ req = NoRequest
    /\ resp = Raised(FALSE)
    /\ lastUpload = <<>>
    /\ stored = 0

\* A client connects; the connection waits in the listen queue
Connect ==
    /\ connected < MaxRequests
    /\ connected' = connected + 1
    /\ UNCHANGED <<cwd, dirs, files, accepted, loop, active, responded, served,
                   req, resp, lastUpload, stored>>

\* A server that starts a thread per request: process_request starts a thread
\* and the loop goes back to select
AcceptThreading ==
    /\ loop = "select"
    /\ accepted < connected
    /\ accepted' = accepted + 1
    /\ active' = active \cup {accepted + 1}
    /\ loop' = "select"
    /\ UNCHANGED <<cwd, dirs, files, connected, responded, served, req, resp,
                   lastUpload, stored>>

\* TCPServer.serve_forever: one turn of the loop takes a connection and calls
\* process_request, which runs the handler in the loop's own thread
Accept ==
    /\ loop = "select"
    /\ accepted < connected
    /\ accepted' = accepted + 1
    /\ active' = active \cup {accepted + 1}
    /\ loop' = "process"
    /\ UNCHANGED <<cwd, dirs, files, connected, responded, served, req, resp,
                   lastUpload, stored>>

HandleGET(id) ==
    /\ id \in active
    /\ \E path \in GetPaths :
          /\ req' = Request("GET", path, Absent, Absent, <<>>)
          /\ resp' = do_GET(path, cwd, dirs, files)
    /\ active' = active \ {id}
    /\ responded' = responded \cup {id}
    /\ served' = served + 1
    /\ UNCHANGED <<cwd, dirs, files, connected, accepted, loop, lastUpload, stored>>

HandlePOST(id) ==
    /\ id \in active
    /\ \E path \in PostPaths, ctype \in ContentTypes, host \in Hosts, body \in Bodies :
          LET r == Request("POST", path, ctype, host, body)
              out == do_POST(r, dirs, files)
          IN  /\ req' = r
              /\ resp' = out.resp
              /\ dirs' = out.dirs
              /\ files' = out.files
              /\ lastUpload' =
                    IF out.resp.status = 200
                    THEN LET n == FinalComponent(ImageOf(r).filename)
                         IN  [m \in DOMAIN lastUpload \cup {n} |->
                                 IF m = n THEN ImageOf(r).data ELSE lastUpload[m]]
                    ELSE lastUpload
              /\ stored' = IF out.resp.status = 200 THEN stored + 1 ELSE stored
    /\ active' = active \ {id}
    /\ responded' = responded \cup {id}
    /\ served' = served + 1
    /\ UNCHANGED <<cwd, connected, accepted, loop>>

\* process_request returns: shutdown_request closes the connection, the
\* handler object with the request and its response is dropped, and the loop
\* takes its next turn
Close(id) ==
    /\ id \in responded
    /\ responded' = responded \ {id}
    /\ loop' = "select"
    /\ req' = NoRequest
    /\ resp' = Raised(FALSE)
    /\ UNCHANGED <<cwd, dirs, files, connected, accepted, active, served,
                   lastUpload, stored>>

Next ==
    \/ Connect
    \/ Accept
    \/ \E id \in 1..MaxRequests : HandleGET(id)
    \/ \E id \in 1..MaxRequests : HandlePOST(id)
    \/ \E id \in 1..MaxRequests : Close(id)

Spec == Init /\ [][Next]_vars

----------------------------------------------------------------------------
(* What the claims speak of *)

\* The step is the handling of one request: req' and resp' are that request
\* and its response
Handled == served' = served + 1

\* A POST to /upload with a Content-Type header and exactly one part named
\* image, which carries a non-empty file name
ValidUpload(r) ==
    /\ r.method = "POST"
    /\ r.path = UploadRoute
    /\ r.ctype.has /\ r.ctype.val # <<>>
    /\ Cardinality(ImagesOf(r)) = 1
    /\ ImageOf(r).has_filename /\ ImageOf(r).filename # <<>>

\* <host> of the claims: the Host header, localhost:3000 without one
ClaimedHost(r) ==
    IF r.host.has THEN r.host.val
    ELSE <<"l", "o", "c", "a", "l", "h", "o", "s", "t", ":", "3", "0", "0", "0">>

\* A name open() can create a file under: not empty, "." or ".."
FileName(n) == n \notin {<<>>, <<".">>, <<".", ".">>}

UploadPath(n) == <<<<"a", "p", "p">>, <<"u", "p", "l", "o", "a", "d", "s">>, n>>

InUploads(p) == Len(p) = 3 /\ p = UploadPath(p[3])

Passwd == <<".", ".", "/", ".", ".", "/", "e", "t", "c", "/", "p", "a", "s", "s", "w", "d">>

InProgress == active \cup responded

----------------------------------------------------------------------------
(* C1 *)

\* C1 (as claimed): after a valid upload of bytes B under file name f has been
\* answered with 200, GET of the image path the page links to,
\* /uploads/<f>, returns 200 with exactly B, wherever the server was started.
C1_RoundTrip ==
    (ValidUpload(req) /\ resp.status = 200) =>
        LET got == do_GET(UploadsUrl \o quote(FinalComponent(ImageOf(req).filename)),
                          cwd, dirs, files)
        IN  got.status = 200 /\ got.body = ImageOf(req).data

----------------------------------------------------------------------------
(* C2 *)

\* C2: every file a step creates or changes is the direct child of the uploads
\* directory named by the final path component of the file name the request
\* submitted, no file is ever removed, and a valid upload named
\* ../../etc/passwd is answered 200 and leaves its bytes in uploads/passwd.
C2_ChangedFilesInUploads ==
    \A p \in DOMAIN files' :
        (p \notin DOMAIN files \/ files'[p] # files[p]) =>
            /\ Handled
            /\ req'.method = "POST"
            /\ Cardinality(ImagesOf(req')) = 1
            /\ p = UploadPath(FinalComponent(ImageOf(req').filename))

C2_PasswdSaved ==
    (ValidUpload(req) /\ ImageOf(req).filename = Passwd) =>
        /\ resp.status = 200
        /\ UploadPath(<<"p", "a", "s", "s", "w", "d">>) \in DOMAIN files
        /\ files[UploadPath(<<"p", "a", "s", "s", "w", "d">>)] = ImageOf(req).data

C2_PathTraversalSafe ==
    /\ []C2_PasswdSaved
    /\ [][C2_ChangedFilesInUploads /\ DOMAIN files \subseteq DOMAIN files']_vars

C2_Witness ==
    /\ ValidUpload(req)
    /\ ImageOf(req).filename = Passwd
    /\ resp.status = 200
    /\ UploadPath(<<"p", "a", "s", "s", "w", "d">>) \in DOMAIN files

----------------------------------------------------------------------------
(* C3 *)

\* C3 (as claimed): a valid upload of file name f is answered 200 with a body
\* that contains http://<host>/uploads/<urlencoded f>.
C3_Original ==
    ValidUpload(req) =>
        /\ resp.status = 200
        /\ Contains(resp.body,
                    HttpScheme \o ClaimedHost(req) \o UploadsUrl
                    \o quote(ImageOf(req).filename))

\* C3 (amended): a valid upload of file name f whose final path component n is
\* a file name is answered 200 with a body that contains
\* http://<host>/uploads/<urlencoded n>; when n is empty, "." or ".." the write
\* raises and no response is sent.
C3_SuccessResponse ==
    ValidUpload(req) =>
        LET n == FinalComponent(ImageOf(req).filename)
        IN  IF FileName(n)
            THEN /\ resp.status = 200
                 /\ Contains(resp.body,
                             HttpScheme \o ClaimedHost(req) \o UploadsUrl \o quote(n))
            ELSE resp.status = NoResponse

C3_Witness ==
    /\ ValidUpload(req)
    /\ ~req.host.has
    /\ ImageOf(req).filename = <<"d", "/", "a">>
    /\ resp.status = 200
    /\ Contains(resp.body, HttpScheme \o ClaimedHost(req) \o UploadsUrl \o <<"a">>)

----------------------------------------------------------------------------
(* C4 *)

\* C4: a POST to /upload without a Content-Type header is answered 400
\* "Missing Content-Type header" whatever its body holds; the body is not
\* parsed and no file is written.
C4_Step ==
    (Handled /\ req'.method = "POST" /\ req'.path = UploadRoute /\ ~req'.ctype.has) =>
        /\ resp'.status = 400
        /\ resp'.reason = "Missing Content-Type header"
        /\ ~resp'.parsed
        /\ files' = files

C4_MissingContentType == [][C4_Step]_vars

C4_Witness ==
    /\ req.method = "POST" /\ req.path = UploadRoute /\ ~req.ctype.has
    /\ Cardinality(ImagesOf(req)) = 1
    /\ ImageOf(req).filename = <<"a">>
    /\ resp.status = 400

----------------------------------------------------------------------------
(* C5 *)

\* C5: a POST to /upload with a Content-Type header is answered 400 "No image
\* file provided" when no part is named image, and 400 "No file selected" when
\* the image part has no file name or an empty one; neither changes a file.
C5_Step ==
    (Handled /\ req'.method = "POST" /\ req'.path = UploadRoute
        /\ req'.ctype.has /\ req'.ctype.val # <<>>) =>
        /\ ImagesOf(req') = {} =>
              /\ resp'.status = 400
              /\ resp'.reason = "No image file provided"
              /\ files' = files
        /\ (Cardinality(ImagesOf(req')) = 1
              /\ (~ImageOf(req').has_filename \/ ImageOf(req').filename = <<>>)) =>
              /\ resp'.status = 400
              /\ resp'.reason = "No file selected"
              /\ files' = files

C5_MissingImage == [][C5_Step]_vars

C5_Witness ==
    /\ req.method = "POST" /\ req.path = UploadRoute /\ req.ctype.has
    /\ Cardinality(ImagesOf(req)) = 1
    /\ ImageOf(req).has_filename /\ ImageOf(req).filename = <<>>
    /\ resp.status = 400 /\ resp.reason = "No file selected"
    /\ \E p \in DOMAIN files : InUploads(p)

----------------------------------------------------------------------------
(* C6 *)

\* C6: a POST whose path is not exactly /upload is answered 404 whatever its
\* headers and body, and changes neither a file nor a directory.
C6_Step ==
    (Handled /\ req'.method = "POST" /\ req'.path # UploadRoute) =>
        /\ resp'.status = 404
        /\ files' = files
        /\ dirs' = dirs

C6_OtherPostPaths == [][C6_Step]_vars

C6_Witness ==
    /\ req.method = "POST" /\ req.path = UploadRoute \o <<"/">> /\ ~req.ctype.has
    /\ resp.status = 404
    /\ PathOf(uploads_dir) \notin dirs

----------------------------------------------------------------------------
(* C7 *)

\* C7: in every state GET "/" and GET "" are answered as GET /index.html is
\* (status and content, the 404 included), and the answer to a GET of any
\* other path is the static file lookup of that very path.
C7_RootIsIndex ==
    /\ do_GET(<<"/">>, cwd, dirs, files)
          = send_head(<<"/">> \o IndexHtml, cwd, dirs, files)
    /\ do_GET(<<>>, cwd, dirs, files)
          = send_head(<<"/">> \o IndexHtml, cwd, dirs, files)
    /\ req.method = "GET" =>
          resp = IF req.path \in {<<>>, <<"/">>}
                 THEN send_head(<<"/">> \o IndexHtml, cwd, dirs, files)
                 ELSE send_head(req.path, cwd, dirs, files)

C7_Witness ==
    /\ req.method = "GET" /\ req.path = <<"/">>
    /\ resp.status = 404
    /\ PathOf(join(cwd, IndexHtml)) \notin DOMAIN files

----------------------------------------------------------------------------
(* C8 *)

\* C8: uploads/<n> holds the bytes of the latest upload answered 200 whose
\* final path component is n and is absent when there was none; an upload
\* answered 200 leaves every other file as it was; no step removes a file.
C8_Latest ==
    /\ \A n \in DOMAIN lastUpload :
          UploadPath(n) \in DOMAIN files /\ files[UploadPath(n)] = lastUpload[n]
    /\ \A p \in DOMAIN files : InUploads(p) => p[3] \in DOMAIN lastUpload

C8_Step ==
    /\ DOMAIN files \subseteq DOMAIN files'
    /\ (Handled /\ req'.method = "POST" /\ resp'.status = 200) =>
          \A p \in DOMAIN files :
              p # UploadPath(FinalComponent(ImageOf(req').filename)) =>
                  files'[p] = files[p]

C8_LastWriterWins == []C8_Latest /\ [][C8_Step]_vars

C8_Witness ==
    /\ ValidUpload(req) /\ resp.status = 200 /\ stored = 2
    /\ ImageOf(req).filename = <<"d", "/", "a">>
    /\ ImageOf(req).data = <<"x">>
    /\ files[UploadPath(<<"a">>)] = <<"x">>
    /\ lastUpload[<<"a">>] = <<"x">>
    /\ Cardinality({p \in DOMAIN files : InUploads(p)}) = 1

----------------------------------------------------------------------------
(* C9 *)

\* C9 (as claimed): a POST to /upload that is answered 400 leaves the file
\* system as it was: no file changes and no directory, the uploads directory
\* included, is created.
C9_Step ==
    (Handled /\ req'.method = "POST" /\ req'.path = UploadRoute /\ resp'.status = 400) =>
        files' = files /\ dirs' = dirs

C9_RejectedLeavesNoTrace == [][C9_Step]_vars

----------------------------------------------------------------------------
(* C10 *)

\* C10: at most one request is in progress, the loop accepts only when none
\* is, and a handler runs only while its own request is the one in progress.
C10_Inv ==
    /\ Cardinality(InProgress) <= 1
    /\ loop = "select" <=> InProgress = {}

C10_Step == Handled => Cardinality(InProgress) = 1 /\ InProgress' = InProgress

C10_OneAtATime == []C10_Inv /\ [][C10_Step]_vars

C10_Witness ==
    /\ Cardinality(InProgress) = 1
    /\ connected > accepted
    /\ served = 1

====
